---- MODULE Spec2Model ----
(***************************************************************************)
(* The SourceManager component (src/unnamed/part_001, lines 90-484): the   *)
(* metadata list, the blob store, the preview reconciliation passes with   *)
(* their object-URL cache, the selection state and the outbound send.      *)
(*                                                                         *)
(* Granularity.  A handler runs to its next `await` in one step.  A state  *)
(* update that changes `sources` is taken together with the effects React  *)
(* runs for it (persist, preview effect cleanup + start, selection         *)
(* pruning).  Every `await` of a blob read is two steps: the store answers *)
(* (the value is fixed), and later the caller resumes with that answer.    *)
(* A blob write or delete takes effect when it is issued; its caller       *)
(* resumes in a later step.  Suspended invocations of one handler with the *)
(* same closure are kept once.                                             *)
(***************************************************************************)
EXTENDS Integers, Sequences, FiniteSets, TLC

\* ---------------------------------------------------------------- bounds
\* Largest source id createSourceId hands out.
MaxIds == 2
\* Largest number of asynchronous activities (loadPreviews invocations and
\* add or delete handlers suspended in the blob store) running at once.
MaxPending == 2

VARIABLES
    sources,        \* useState sources: sequence of SourceRecord
    persisted,      \* metadata store: the list persistSources wrote last
    blobs,          \* blob store: key -> blob
    written,        \* history: key -> the blob persistBlob stored under it
    nextId,         \* createSourceId: next fresh id
    previews,       \* useState previews: id -> PreviewEntry
    objectUrlRef,   \* objectUrlRef.current: id -> object URL
    liveUrls,       \* object URLs created and not revoked
    nextUrl,        \* URL.createObjectURL: next fresh URL
    passes,         \* loadPreviews invocations still running, oldest first
    lastFinish,     \* history: how the loadPreviews invocation that ended last ended
    created,        \* history: id -> the object URLs created for it in this page
    selectedId,     \* useState selectedId (0 is null)
    selectedIds,    \* useState selectedIds
    isProcessing,   \* useState isProcessing
    fileOps,        \* handleFiles invocations suspended in persistBlob
    textOps,        \* handleTextSubmit invocations suspended in persistBlob
    delOps,         \* handleDelete invocations suspended in deleteBlob
    removed,        \* history: the handleDelete invocations that have completed
    assistantUrl,   \* useState assistantUrl
    sending,        \* useState sending
    send,           \* the handleSendToAssistant invocation
    statusTone,     \* useState statusTone
    statusMessage,  \* useState statusMessage ("null" is null)
    timers,         \* some setTimeout(() => setStatusMessage(null)) is pending
    categoryFilter, \* useState categoryFilter
    query,          \* useState query
    mounted,        \* the component is mounted
    initialSources, \* the mount effect's setSources(initialSources), not rendered yet
    urlFormTags     \* useState urlForm: the tags field

storeVars   == <<sources, persisted, blobs, written, nextId>>
previewVars == <<previews, objectUrlRef, liveUrls, nextUrl, passes, lastFinish, created>>
selVars     == <<selectedId, selectedIds>>
opVars      == <<isProcessing, fileOps, textOps, delOps, removed>>
sendVars    == <<assistantUrl, sending, send>>
statusVars  == <<statusTone, statusMessage, timers>>
viewVars    == <<categoryFilter, query>>
mountVars   == <<mounted, initialSources>>
formVars    == <<urlFormTags>>
vars == <<storeVars, previewVars, selVars, opVars, sendVars, statusVars, viewVars, mountVars, formVars>>

\* ------------------------------------------------------------ data model
NoKey == <<>>
FileKeyOf(id) == <<"file", id>>
TextKeyOf(id) == <<"text", id>>
NoUrl == <<>>
\* no setSources(initialSources) is waiting for its render
NoList == <<"none">>
\* the address a link carries, trimmed (one letter stands for it)
UrlOf(id) == <<"u">>

\* Text fields (name, description, tags, query) are strings over the letters
\* "a", "A", "b" and the blank, as sequences of characters.  The records the
\* add handlers build carry one name and one category per kind: an image
\* file named "a", a note titled "b", a link without a name of its own.
FileName == <<"a">>
NoteTitle == <<"b">>
UrlName == <<"a", "b">>

\* handleFiles, lines 243-254 (category: detectCategory(file), here an image)
FileRecord(id) ==
    [id |-> id, kind |-> "file", fileKey |-> FileKeyOf(id), textKey |-> NoKey, url |-> NoUrl,
     category |-> "image", name |-> FileName, description |-> <<>>, tags |-> <<>>]
\* handleTextSubmit, lines 327-336
TextRecord(id) ==
    [id |-> id, kind |-> "text", fileKey |-> NoKey, textKey |-> TextKeyOf(id), url |-> NoUrl,
     category |-> "text", name |-> NoteTitle, description |-> <<>>, tags |-> <<>>]
\* handleUrlSubmit, lines 298-307 (category: detectCategoryFromUrl(url), here
\* its default; name: the url when the name field is blank)
UrlRecord(id) ==
    [id |-> id, kind |-> "url", fileKey |-> NoKey, textKey |-> NoKey, url |-> UrlOf(id),
     category |-> "other", name |-> UrlName, description |-> <<>>, tags |-> <<>>]

IdsOf(list) == {list[k].id : k \in 1..Len(list)}
FileIdsOf(list) == {list[k].id : k \in {j \in 1..Len(list) : list[j].fileKey # NoKey}}

NoMap == <<>>
Put(m, k, v) == (k :> v) @@ m

RECURSIVE TrimStart(_)
TrimStart(str) ==
    IF str # <<>> /\ Head(str) = " " THEN TrimStart(Tail(str)) ELSE str
RECURSIVE TrimEnd(_)
TrimEnd(str) ==
    IF str # <<>> /\ str[Len(str)] = " " THEN TrimEnd(SubSeq(str, 1, Len(str) - 1))
    ELSE str
\* String.prototype.trim
Trim(str) == TrimEnd(TrimStart(str))

\* String.prototype.split(","): the pieces between the commas
RECURSIVE Split(_)
Split(str) ==
    IF \A k \in 1..Len(str) : str[k] # "," THEN <<str>>
    ELSE LET i == CHOOSE k \in 1..Len(str) :
                      str[k] = "," /\ \A j \in 1..(k - 1) : str[j] # ","
         IN <<SubSeq(str, 1, i - 1)>> \o Split(SubSeq(str, i + 1, Len(str)))

\* line 87: slice(0, 12)
TagLimit == 12
\* Array.prototype.slice(0, n)
Slice(seq, n) == SubSeq(seq, 1, IF Len(seq) < n THEN Len(seq) ELSE n)
\* (mutant) every tag is kept
parseTagsUnlimited(value) ==
    LET pieces == Split(value)
        trimmed == [k \in 1..Len(pieces) |-> Trim(pieces[k])]
    IN SelectSeq(trimmed, LAMBDA tag : tag # <<>>)
\* parseTags, lines 82-88
parseTags(value) ==
    LET pieces == Split(value)
        trimmed == [k \in 1..Len(pieces) |-> Trim(pieces[k])]
    IN Slice(SelectSeq(trimmed, LAMBDA tag : tag # <<>>), TagLimit)

\* blob store contract: get, put, delete by key.  readBlob tells whether get
\* returns a blob; BlobAt is the blob it returns.
readBlob(store, key) == key \in DOMAIN store
BlobAt(store, key) == store[key]
NoBlob == <<>>
persistBlob(store, key, blob) == Put(store, key, blob)
deleteBlob(store, key) == [k \in DOMAIN store \ {key} |-> store[k]]

\* the bytes of a dropped file (line 242)
FileBytes == <<"bytes">>
\* values of the note form's content field
NoteInputs == {<<"a">>, <<"b", " ">>, <<" ">>}

\* ------------------------------------------------------- preview entries
NoText == <<>>
UrlEntry(u) == [objectUrl |-> u, text |-> NoText]
\* line 166: await blob.text()
TextEntry(blob) == [objectUrl |-> 0, text |-> blob]
EmptyEntry  == [objectUrl |-> 0, text |-> NoText]

\* ---------------------------------------------- preview effect, 141-185
\* One loadPreviews invocation: its closure (list = sources, isCurrent), its
\* local `next`, the loop position i and the answer rd of the readBlob it
\* awaits ("none" while the store has not answered).  superseded is history:
\* a later invocation of the effect has started.
NewPass(list) ==
    [list |-> list, i |-> 1, next |-> NoMap, rd |-> "none", blob |-> NoBlob,
     isCurrent |-> TRUE, superseded |-> FALSE]

\* (mutant) the cleanup leaves the flag set
CleanupKeepsFlag(p) == p
\* lines 182-184: the effect's cleanup
Cleanup(p) == [p EXCEPT !.isCurrent = FALSE]
Supersede(p) == [Cleanup(p) EXCEPT !.superseded = TRUE]

\* (mutant) the release step releases every cached handle
ReleasedIdsAll(ref, list) == DOMAIN ref
\* lines 146-153: the release step
ReleasedIds(ref, list) == {id \in DOMAIN ref : id \notin IdsOf(list)}
ReleasedRef(ref, list) == [id \in DOMAIN ref \ ReleasedIds(ref, list) |-> ref[id]]
\* (mutant) the release step drops the cache entry without revoking the URL
ReleasedUrlsNone(ref, list) == {}
ReleasedUrls(ref, list) == {ref[id] : id \in ReleasedIds(ref, list)}

Finished(p) == p.i > Len(p.list)
Current(p) == p.list[p.i]
AwaitedKey(p) ==
    IF Current(p).fileKey # NoKey THEN Current(p).fileKey ELSE Current(p).textKey

\* lines 155-171: the loop runs on to its next await; a record with neither
\* key takes the else branch (line 169) without suspending
RECURSIVE Advance(_)
Advance(p) ==
    IF Finished(p) THEN p
    ELSE IF Current(p).fileKey # NoKey \/ Current(p).textKey # NoKey THEN p
    ELSE Advance([p EXCEPT !.next = Put(p.next, Current(p).id, EmptyEntry),
                           !.i = p.i + 1])

\* lines 173-175: the commit
Commits(p) == Finished(p) /\ p.isCurrent
\* (mutant) the commit merges the new entries into the old map
CommitMerged(p, prev) == IF Commits(p) THEN p.next @@ prev ELSE prev
CommitPreviews(p, prev) == IF Commits(p) THEN p.next ELSE prev

\* History: "committed" when the invocation called setPreviews as the pass of
\* the list in `sources`, "stale" when it called setPreviews after a later
\* invocation had started or for another list, "discarded" when it ended
\* without calling setPreviews.
Outcome(p, list) ==
    IF ~Commits(p) THEN "discarded"
    ELSE IF p.superseded \/ p.list # list THEN "stale" ELSE "committed"

\* lines 159-162: handle creation or reuse
HasHandle(ref, id) == id \in DOMAIN ref
HandleFor(ref, id, fresh) == IF HasHandle(ref, id) THEN ref[id] ELSE fresh
\* the object URLs created for id
CreatedFor(id) == IF id \in DOMAIN created THEN created[id] ELSE {}

\* ------------------------------------------- selection pruning, 196-208
\* (mutant) the effect never resets the single selection
PruneSelectedIdNever(sel, list) == sel
PruneSelectedId(sel, list) == IF sel # 0 /\ sel \notin IdsOf(list) THEN 0 ELSE sel
PruneSelectedIds(selIds, list) == {id \in selIds : id \in IdsOf(list)}

\* setSources(list) with setSelectedId(sel), setSelectedIds(selIds) of the
\* same handler, and the effects of the render: persist (131-134), preview
\* (141-185: cleanup of the running pass, release step, start of the new
\* pass), selection pruning (196-208).
Render(list, sel, selIds) ==
    LET old == [k \in 1..Len(passes) |-> Supersede(passes[k])]
        p == Advance(NewPass(list))
    IN /\ sources' = list
       /\ persisted' = list
       /\ objectUrlRef' = ReleasedRef(objectUrlRef, list)
       /\ liveUrls' = liveUrls \ ReleasedUrls(objectUrlRef, list)
       /\ nextUrl' = nextUrl
       /\ passes' = IF Finished(p) THEN old ELSE Append(old, p)
       /\ previews' = CommitPreviews(p, previews)
       /\ lastFinish' = IF Finished(p) THEN Outcome(p, list) ELSE lastFinish
       /\ created' = created
       /\ selectedId' = PruneSelectedId(sel, list)
       /\ selectedIds' = PruneSelectedIds(selIds, list)

RemoveAt(seq, k) == [j \in 1..(Len(seq) - 1) |-> IF j < k THEN seq[j] ELSE seq[j + 1]]

\* line 157 / 164: the blob store answers the read the pass awaits
PassRead(k) ==
    /\ k \in 1..Len(passes)
    /\ passes[k].rd = "none"
    /\ LET key == AwaitedKey(passes[k])
       IN passes' = IF readBlob(blobs, key)
                    THEN [passes EXCEPT ![k].rd = "hit", ![k].blob = BlobAt(blobs, key)]
                    ELSE [passes EXCEPT ![k].rd = "miss"]
    /\ UNCHANGED <<previews, objectUrlRef, liveUrls, nextUrl, lastFinish, created>>
    /\ UNCHANGED <<storeVars, selVars, opVars, sendVars, statusVars>>
    /\ UNCHANGED <<viewVars, mountVars, formVars>>

\* (mutant) an absent blob gets an entry as well
NextAfterReadAlways(p, hit, entry) == Put(p.next, Current(p).id, entry)
\* lines 158 and 165, `if (!blob) continue`, then 162 or 167
NextAfterRead(p, hit, entry) ==
    IF hit THEN Put(p.next, Current(p).id, entry) ELSE p.next

\* lines 158-175: the pass resumes with the answer
PassResume(k) ==
    /\ k \in 1..Len(passes)
    /\ passes[k].rd # "none"
    /\ LET p == passes[k]
           src == Current(p)
           hit == p.rd = "hit"
           isFile == src.fileKey # NoKey
           creates == hit /\ isFile /\ ~HasHandle(objectUrlRef, src.id)
           u == HandleFor(objectUrlRef, src.id, nextUrl)
           entry == IF isFile THEN UrlEntry(u) ELSE TextEntry(p.blob)
           stepped == [p EXCEPT !.rd = "none", !.blob = NoBlob, !.i = p.i + 1,
                                !.next = NextAfterRead(p, hit, entry)]
           q == Advance(stepped)
       IN /\ objectUrlRef' = IF hit /\ isFile THEN Put(objectUrlRef, src.id, u)
                             ELSE objectUrlRef
          /\ liveUrls' = IF creates THEN liveUrls \cup {u} ELSE liveUrls
          /\ nextUrl' = IF creates THEN nextUrl + 1 ELSE nextUrl
          /\ created' = IF creates THEN Put(created, src.id, CreatedFor(src.id) \cup {u})
                        ELSE created
          /\ passes' = IF Finished(q) THEN RemoveAt(passes, k)
                       ELSE [passes EXCEPT ![k] = q]
          /\ previews' = CommitPreviews(q, previews)
          /\ lastFinish' = IF Finished(q) THEN Outcome(q, sources) ELSE lastFinish
    /\ UNCHANGED <<storeVars, selVars, opVars, sendVars, statusVars>>
    /\ UNCHANGED <<viewVars, mountVars, formVars>>

\* ------------------------------------------------- teardown, 182-194
\* The component unmounts: the preview effect's cleanup (182-184) clears
\* isCurrent of the running invocation, and the cleanup of lines 187-194
\* revokes every cached URL and replaces the cache by an empty one.  The
\* loadPreviews invocations that are suspended stay suspended in their read.
Unmount ==
    /\ mounted
    /\ mounted' = FALSE
    /\ passes' = [k \in 1..Len(passes) |-> Cleanup(passes[k])]
    /\ liveUrls' = liveUrls \ {objectUrlRef[id] : id \in DOMAIN objectUrlRef}
    /\ objectUrlRef' = NoMap
    /\ UNCHANGED <<previews, nextUrl, lastFinish, created, initialSources>>
    /\ UNCHANGED <<storeVars, selVars, opVars, sendVars, statusVars, viewVars, formVars>>

\* ------------------------------------------------------ status messages
\* handler invocations suspended in persistBlob or deleteBlob
Suspended == Cardinality(fileOps) + Cardinality(textOps) + Cardinality(delOps)
\* asynchronous activities running
Pending == Len(passes) + Suspended

\* setStatusTone, setStatusMessage and the setTimeout that clears the message
SetStatus(tone, message, timed) ==
    /\ statusTone' = tone
    /\ statusMessage' = message
    /\ timers' = (timers \/ timed)

\* a pending setTimeout(() => setStatusMessage(null), ...) fires; others may
\* still be pending
TimerFire ==
    /\ timers
    /\ statusMessage' = "null"
    /\ timers' \in BOOLEAN
    /\ UNCHANGED <<statusTone, storeVars, previewVars, selVars, opVars, sendVars>>
    /\ UNCHANGED <<viewVars, mountVars, formVars>>

\* ------------------------------------------------- handleFiles, 230-265
\* (mutant) the updater ignores prev: the list of the handler's closure,
\* empty for handleFiles (useCallback without dependencies), is used
PrependedToNone(additions, prev) == additions
\* (mutant) the new records are put after the old ones
Appended(additions, prev) == prev \o additions
\* lines 257, 309, 338: the updater (prev) => [...additions, ...prev]
Prepended(additions, prev) == additions \o prev

\* Lines 232-242: the batch starts; the first file's blob is written and the
\* handler suspends in persistBlob.
FilesStart(n) ==
    /\ n >= 1
    /\ nextId + n - 1 <= MaxIds
    /\ Pending < MaxPending
    /\ isProcessing' = TRUE
    /\ blobs' = persistBlob(blobs, FileKeyOf(nextId), FileBytes)
    /\ written' = Put(written, FileKeyOf(nextId), FileBytes)
    /\ nextId' = nextId + 1
    /\ fileOps' = fileOps \cup {[cur |-> nextId, left |-> n - 1, additions |-> <<>>]}
    /\ UNCHANGED <<sources, persisted, previewVars, selVars, textOps, delOps, removed,
                   sendVars, statusVars>>
    /\ UNCHANGED <<viewVars, mountVars, formVars>>

\* Lines 243-255 then 238-242 again: the record is pushed and the next file's
\* blob is written.
FilesNext(op) ==
    /\ op \in fileOps
    /\ op.left > 0
    /\ blobs' = persistBlob(blobs, FileKeyOf(nextId), FileBytes)
    /\ written' = Put(written, FileKeyOf(nextId), FileBytes)
    /\ nextId' = nextId + 1
    /\ fileOps' = (fileOps \ {op}) \cup
                    {[cur |-> nextId, left |-> op.left - 1,
                      additions |-> Append(op.additions, FileRecord(op.cur))]}
    /\ UNCHANGED <<sources, persisted, previewVars, selVars, isProcessing, textOps,
                   delOps, removed, sendVars, statusVars>>
    /\ UNCHANGED <<viewVars, mountVars, formVars>>

\* Lines 243-262: the last record is pushed and the batch is published.
FilesFinish(op) ==
    /\ op \in fileOps
    /\ op.left = 0
    /\ LET additions == Append(op.additions, FileRecord(op.cur))
       IN Render(Prepended(additions, sources), additions[1].id, selectedIds)
    /\ SetStatus("success", "Added", TRUE)
    /\ isProcessing' = FALSE
    /\ fileOps' = fileOps \ {op}
    /\ UNCHANGED <<blobs, written, nextId, textOps, delOps, removed, sendVars>>
    /\ UNCHANGED <<viewVars, mountVars, formVars>>

\* (mutant) the handler catches the rejection and publishes the batch
FilesFailPublishes(op) ==
    /\ op \in fileOps
    /\ blobs' = deleteBlob(blobs, FileKeyOf(op.cur))
    /\ written' = deleteBlob(written, FileKeyOf(op.cur))
    /\ fileOps' = fileOps \ {op}
    /\ Render(Prepended(Append(op.additions, FileRecord(op.cur)), sources),
              selectedId, selectedIds)
    /\ UNCHANGED <<nextId, isProcessing, textOps, delOps, removed, sendVars, statusVars,
                   viewVars, mountVars, formVars>>
\* Line 242: the persistBlob the handler awaits rejects.  Nothing is stored
\* under the key; the handler has no try/catch, so it ends there: the
\* additions are dropped and line 262 is not reached.
FilesFail(op) ==
    /\ op \in fileOps
    /\ blobs' = deleteBlob(blobs, FileKeyOf(op.cur))
    /\ written' = deleteBlob(written, FileKeyOf(op.cur))
    /\ fileOps' = fileOps \ {op}
    /\ UNCHANGED <<sources, persisted, nextId, previewVars, selVars, isProcessing, textOps,
                   delOps, removed, sendVars, statusVars, viewVars, mountVars, formVars>>

\* ---------------------------------------------- handleUrlSubmit, 290-315
\* what the url field of the form can hold
UrlInputs == {<<"u">>, <<" ", "u">>, <<" ">>}
\* (mutant) a blank url field is accepted
UrlGivenAlways(input) == TRUE
\* line 292: if (!urlForm.url.trim()) return
UrlGiven(input) == Trim(input) # <<>>
\* lines 295-307, url: urlForm.url.trim(), tags: parseTags(urlForm.tags)
UrlRecordFrom(id, input) ==
    [UrlRecord(id) EXCEPT !.url = Trim(input), !.tags = parseTags(urlFormTags)]

\* What the tags field of the form can hold: every text of up to three
\* characters over a letter, the comma and the blank, the text "a, b ,, a",
\* and two long listings.
TagChars == {"a", ",", " "}
ShortTagInputs ==
    UNION {[1..n -> TagChars] : n \in 0..3}
        \cup {<<"a", ",", " ", "b", " ", ",", ",", " ", "a">>}
TagPiece(k) == IF k % 2 = 1 THEN <<"a">> ELSE <<"b">>
\* " a, b, a, ..." with n tags, each followed by a comma
RECURSIVE Listing(_)
Listing(n) ==
    IF n = 0 THEN <<>> ELSE Listing(n - 1) \o <<" ">> \o TagPiece(n) \o <<",">>
LongTagInputs == {Listing(13), Listing(14)}
TagInputs == ShortTagInputs \cup LongTagInputs

\* line 641: the tags field's onChange
SetUrlFormTags(value) ==
    /\ value \in TagInputs
    /\ urlFormTags' = value
    /\ UNCHANGED <<storeVars, previewVars, selVars, opVars, sendVars, statusVars, viewVars,
                   mountVars>>

UrlSubmit(input) ==
    /\ input \in UrlInputs
    /\ UrlGiven(input)
    /\ nextId <= MaxIds
    /\ Pending < MaxPending
    /\ nextId' = nextId + 1
    /\ Render(Prepended(<<UrlRecordFrom(nextId, input)>>, sources), nextId, selectedIds)
    /\ urlFormTags' = <<>>
    /\ SetStatus("success", "Linked", TRUE)
    /\ UNCHANGED <<blobs, written, opVars, sendVars>>
    /\ UNCHANGED <<viewVars, mountVars>>

\* --------------------------------------------- handleTextSubmit, 317-344
\* Lines 319-325: the note's blob is written; the handler suspends.
TextStart(content) ==
    /\ content \in NoteInputs
    /\ Trim(content) # <<>>
    /\ nextId <= MaxIds
    /\ Pending < MaxPending
    /\ nextId' = nextId + 1
    /\ blobs' = persistBlob(blobs, TextKeyOf(nextId), Trim(content))
    /\ written' = Put(written, TextKeyOf(nextId), Trim(content))
    /\ textOps' = textOps \cup {nextId}
    /\ UNCHANGED <<sources, persisted, previewVars, selVars, isProcessing, fileOps,
                   delOps, removed, sendVars, statusVars>>
    /\ UNCHANGED <<viewVars, mountVars, formVars>>

\* Lines 327-343
TextFinish(id) ==
    /\ id \in textOps
    /\ textOps' = textOps \ {id}
    /\ Render(Prepended(<<TextRecord(id)>>, sources), id, selectedIds)
    /\ SetStatus("success", "Captured", TRUE)
    /\ UNCHANGED <<blobs, written, nextId, isProcessing, fileOps, delOps, removed, sendVars>>
    /\ UNCHANGED <<viewVars, mountVars, formVars>>

\* Lines 322-325: the persistBlob the handler awaits rejects; nothing is
\* stored and the handler ends there.
TextFail(id) ==
    /\ id \in textOps
    /\ blobs' = deleteBlob(blobs, TextKeyOf(id))
    /\ written' = deleteBlob(written, TextKeyOf(id))
    /\ textOps' = textOps \ {id}
    /\ UNCHANGED <<sources, persisted, nextId, previewVars, selVars, isProcessing, fileOps,
                   delOps, removed, sendVars, statusVars, viewVars, mountVars, formVars>>

\* ------------------------------------------------- handleDelete, 346-362
Without(list, id) == SelectSeq(list, LAMBDA item : item.id # id)

\* Lines 353-361; wasSelected is line 359's test, selectedId === source.id, on
\* the selectedId of the handler's closure
DeleteCommit(source, wasSelected) ==
    Render(Without(sources, source.id),
           IF wasSelected THEN 0 ELSE selectedId,
           selectedIds \ {source.id})

HasBlobKey(source) == source.fileKey # NoKey \/ source.textKey # NoKey
BlobKeyOf(source) == IF source.fileKey # NoKey THEN source.fileKey ELSE source.textKey

\* (mutant) only the fileKey branch deletes
BlobsAfterDeleteFileOnly(store, source) ==
    IF source.fileKey # NoKey THEN deleteBlob(store, source.fileKey) ELSE store
\* Lines 347-352: the blob store after the handler's deleteBlob calls
BlobsAfterDelete(store, source) ==
    LET afterFile == IF source.fileKey # NoKey THEN deleteBlob(store, source.fileKey)
                     ELSE store
    IN IF source.textKey # NoKey THEN deleteBlob(afterFile, source.textKey)
       ELSE afterFile

\* History of a completed handleDelete: the record, and raced when the record
\* was the single selection at completion although line 359's test failed.
Removal(source, wasSelected) ==
    [source |-> source, raced |-> ~wasSelected /\ selectedId = source.id]

\* Lines 347-352: deleteBlob is issued and the handler suspends; the closure
\* keeps the record and the selectedId of the render the click came from
\* (kept as the outcome of line 359's test, all the handler uses it for).
DeleteStart(k) ==
    /\ k \in 1..Len(sources)
    /\ HasBlobKey(sources[k])
    /\ Pending < MaxPending
    /\ blobs' = BlobsAfterDelete(blobs, sources[k])
    /\ written' = written
    /\ delOps' = delOps \cup {[source |-> sources[k],
                              wasSelected |-> selectedId = sources[k].id]}
    /\ UNCHANGED <<sources, persisted, nextId, previewVars, selVars, isProcessing,
                   fileOps, textOps, removed, sendVars, statusVars>>
    /\ UNCHANGED <<viewVars, mountVars, formVars>>

\* Lines 353-361 after the await
DeleteFinish(op) ==
    /\ op \in delOps
    /\ delOps' = delOps \ {op}
    /\ removed' = removed \cup {Removal(op.source, op.wasSelected)}
    /\ DeleteCommit(op.source, op.wasSelected)
    /\ UNCHANGED <<blobs, written, nextId, isProcessing, fileOps, textOps, sendVars, statusVars>>
    /\ UNCHANGED <<viewVars, mountVars, formVars>>

\* A record with neither key: the handler never suspends.
DeleteNow(k) ==
    /\ k \in 1..Len(sources)
    /\ ~HasBlobKey(sources[k])
    /\ Pending < MaxPending
    /\ removed' = removed \cup {Removal(sources[k], selectedId = sources[k].id)}
    /\ DeleteCommit(sources[k], selectedId = sources[k].id)
    /\ UNCHANGED <<blobs, written, nextId, isProcessing, fileOps, textOps, delOps, sendVars,
                   statusVars>>
    /\ UNCHANGED <<viewVars, mountVars, formVars>>

\* ------------------------------------------------------------ selection
\* toggleSelection, 364-374
Toggled(selIds, id) == IF id \in selIds THEN selIds \ {id} ELSE selIds \cup {id}

ToggleSelection(id) ==
    /\ id \in IdsOf(sources)
    /\ selectedIds' = Toggled(selectedIds, id)
    /\ UNCHANGED <<selectedId, storeVars, previewVars, opVars, sendVars, statusVars>>
    /\ UNCHANGED <<viewVars, mountVars, formVars>>

\* line 761: a click on a card
SelectCard(id) ==
    /\ id \in IdsOf(sources)
    /\ selectedId' = id
    /\ UNCHANGED <<selectedIds, storeVars, previewVars, opVars, sendVars, statusVars>>
    /\ UNCHANGED <<viewVars, mountVars, formVars>>

\* ------------------------------------------------- filtering, 210-223
\* CATEGORY_OPTIONS keys, lines 51-58
CategoryKeys == {"all", "video", "image", "pdf", "text", "other"}
\* values of the search field
QueryInputs == {<<>>, <<"a">>, <<"A">>, <<"b">>, <<"a", "b">>}

\* (mutant) the text is compared as it is written
ToLowerCaseNone(str) == str
\* String.prototype.toLowerCase on the alphabet
ToLowerCase(str) == [k \in 1..Len(str) |-> IF str[k] = "A" THEN "a" ELSE str[k]]
\* String.prototype.includes
Includes(str, part) ==
    \E k \in 0..(Len(str) - Len(part)) : SubSeq(str, k + 1, k + Len(part)) = part

\* lines 213-214
MatchesCategory(source, filter) == filter = "all" \/ source.category = filter
\* lines 211, 215-220
MatchesQuery(source, value) ==
    LET lowerQuery == ToLowerCase(value)
    IN \/ Len(lowerQuery) = 0
       \/ Includes(ToLowerCase(source.name), lowerQuery)
       \/ source.description # <<>> /\ Includes(ToLowerCase(source.description), lowerQuery)
       \/ \E t \in 1..Len(source.tags) : Includes(ToLowerCase(source.tags[t]), lowerQuery)
\* lines 210-223
filteredSources ==
    SelectSeq(sources, LAMBDA source : MatchesCategory(source, categoryFilter)
                                       /\ MatchesQuery(source, query))

\* line 721: a click on a category chip
SetCategoryFilter(key) ==
    /\ key \in CategoryKeys
    /\ categoryFilter' = key
    /\ UNCHANGED <<query, storeVars, previewVars, selVars, opVars, sendVars, statusVars,
                   mountVars, formVars>>

\* line 696: the search field's onChange
SetQuery(value) ==
    /\ value \in QueryInputs
    /\ query' = value
    /\ UNCHANGED <<categoryFilter, storeVars, previewVars, selVars, opVars, sendVars,
                   statusVars, mountVars, formVars>>

\* ---------------------------------------- handleSendToAssistant, 376-484
\* The endpoint field holds a string of blanks (" ") and letters ("a").
EndpointInputs == {<<>>, <<" ">>, <<"a">>, <<" ", "a">>}

\* line 518
SetAssistantUrl(value) ==
    /\ value \in EndpointInputs
    /\ assistantUrl' = value
    /\ UNCHANGED <<sending, send, storeVars, previewVars, selVars, opVars, statusVars>>
    /\ UNCHANGED <<viewVars, mountVars, formVars>>

\* (mutant) the multi-selection is taken from the visible list
selectedVisibleSources ==
    SelectSeq(filteredSources, LAMBDA source : source.id \in selectedIds)
\* lines 225-228
selectedSources == SelectSeq(sources, LAMBDA source : source.id \in selectedIds)

\* (mutant) the single selection is sent along with the multi-selection
TargetsWithSingle ==
    SelectSeq(sources, LAMBDA source : source.id \in selectedIds \/ source.id = selectedId)
\* lines 384-388
Targets ==
    IF Len(selectedSources) > 0 THEN selectedSources
    ELSE IF selectedId # 0 THEN SelectSeq(sources, LAMBDA source : source.id = selectedId)
    ELSE <<>>

\* (mutant) the endpoint is tested without trim()
EndpointMissingNoTrim == assistantUrl = <<>>
\* line 377
EndpointMissing == Trim(assistantUrl) = <<>>

\* One invocation: phase "idle" (none running), "loop" (suspended in a
\* readBlob of the payload loop) or "post" (suspended in fetch); its closure
\* (targets), the loop position i, the local payload, the answer rd of the
\* awaited read and the blob it returned, the body fetch was called with.
\* History of the invocation: missed (ids whose blob read returned absent),
\* posts (fetch calls made), response (what fetch gave).
NoBody == <<>>
IdleSend ==
    [phase |-> "idle", targets |-> <<>>, i |-> 1, payload |-> <<>>, rd |-> "none",
     blob |-> NoBlob, body |-> NoBody, missed |-> {}, posts |-> 0, response |-> "none"]

\* blobToBase64, lines 72-80
Base64Of(blob) == <<"base64">> \o blob
\* line 426: blob ? await blob.text() : ""
TextOf(hit, blob) == IF hit THEN blob ELSE <<>>

\* payload entries, lines 409-453 (id, kind, data.encoding, data.value)
Base64Entry(source, blob) ==
    [id |-> source.id, kind |-> source.kind, encoding |-> "base64", value |-> Base64Of(blob)]
TextPayload(source, hit, blob) ==
    [id |-> source.id, kind |-> source.kind, encoding |-> "text", value |-> TextOf(hit, blob)]
UrlPayload(source) ==
    [id |-> source.id, kind |-> source.kind, encoding |-> "url", value |-> source.url]

SendTarget(s) == s.targets[s.i]
LoopDone(s) == s.i > Len(s.targets)

\* lines 404-455: the loop runs on to its next await; a url target is pushed
\* without suspending (440-453)
RECURSIVE SendAdvance(_)
SendAdvance(s) ==
    IF LoopDone(s) THEN s
    ELSE IF HasBlobKey(SendTarget(s)) THEN s
    ELSE SendAdvance([s EXCEPT !.i = s.i + 1,
                               !.payload = IF SendTarget(s).url # NoUrl
                                           THEN Append(s.payload, UrlPayload(SendTarget(s)))
                                           ELSE s.payload])

\* lines 462-466: the body of the POST
BodyOf(payload) == [sourceCount |-> Len(payload), sources |-> payload]

\* lines 457-467: after the loop, fetch is called once
IssuePost(s) ==
    IF LoopDone(s)
    THEN [s EXCEPT !.phase = "post", !.posts = s.posts + 1, !.body = BodyOf(s.payload)]
    ELSE s

\* lines 405-439: what the loop does with the answer of the read
AfterRead(s, hit) ==
    LET source == SendTarget(s)
    IN IF source.fileKey # NoKey
       THEN IF hit THEN Append(s.payload, Base64Entry(source, s.blob)) ELSE s.payload
       ELSE Append(s.payload, TextPayload(source, hit, s.blob))

\* lines 377-382: no endpoint
SendRejectEndpoint ==
    /\ ~sending
    /\ EndpointMissing
    /\ SetStatus("error", "AddEndpoint", TRUE)
    /\ UNCHANGED <<sendVars, storeVars, previewVars, selVars, opVars>>
    /\ UNCHANGED <<viewVars, mountVars, formVars>>

\* lines 390-395: no target
SendRejectTargets ==
    /\ ~sending
    /\ ~EndpointMissing
    /\ Targets = <<>>
    /\ SetStatus("info", "SelectOne", TRUE)
    /\ UNCHANGED <<sendVars, storeVars, previewVars, selVars, opVars>>
    /\ UNCHANGED <<viewVars, mountVars, formVars>>

\* lines 397-404 and the loop up to its first await
SendStart ==
    /\ ~sending
    /\ ~EndpointMissing
    /\ Targets # <<>>
    /\ sending' = TRUE
    /\ SetStatus("info", "Sending", FALSE)
    /\ send' = IssuePost(SendAdvance([IdleSend EXCEPT !.phase = "loop", !.targets = Targets]))
    /\ UNCHANGED <<assistantUrl, storeVars, previewVars, selVars, opVars>>
    /\ UNCHANGED <<viewVars, mountVars, formVars>>

\* line 406 / 425: the blob store answers the read the loop awaits
SendRead ==
    /\ send.phase = "loop"
    /\ send.rd = "none"
    /\ LET key == BlobKeyOf(SendTarget(send))
       IN send' = IF readBlob(blobs, key)
                  THEN [send EXCEPT !.rd = "hit", !.blob = BlobAt(blobs, key)]
                  ELSE [send EXCEPT !.rd = "miss"]
    /\ UNCHANGED <<assistantUrl, sending, storeVars, previewVars, selVars, opVars, statusVars>>
    /\ UNCHANGED <<viewVars, mountVars, formVars>>

\* lines 407-455: the loop resumes with the answer
SendResume ==
    /\ send.phase = "loop"
    /\ send.rd # "none"
    /\ LET hit == send.rd = "hit"
           stepped == [send EXCEPT !.rd = "none", !.blob = NoBlob, !.i = send.i + 1,
                                   !.payload = AfterRead(send, hit),
                                   !.missed = IF hit THEN send.missed
                                              ELSE send.missed \cup {SendTarget(send).id}]
       IN send' = IssuePost(SendAdvance(stepped))
    /\ UNCHANGED <<assistantUrl, sending, storeVars, previewVars, selVars, opVars, statusVars>>
    /\ UNCHANGED <<viewVars, mountVars, formVars>>

\* (mutant) response.ok is not tested: only a rejected fetch is an error
ResponseToneNoOkTest(response) == IF response = "network" THEN "error" ELSE "success"
\* lines 469-480: the tone the invocation ends with, by what fetch gave:
\* "ok" (2xx), "status" (another status), "network" (fetch rejected)
ResponseTone(response) == IF response = "ok" THEN "success" ELSE "error"
ResponseMessage(response) == IF response = "ok" THEN "Synced" ELSE "Unreachable"

\* (mutant) no finally: the flag is reset on the success path only
SendResponseNoFinally(response) ==
    /\ send.phase = "post"
    /\ response \in {"ok", "status", "network"}
    /\ SetStatus(ResponseTone(response), ResponseMessage(response), TRUE)
    /\ sending' = (response # "ok")
    /\ send' = [IdleSend EXCEPT !.posts = send.posts, !.body = send.body,
                                 !.response = response]
    /\ UNCHANGED <<assistantUrl, storeVars, previewVars, selVars, opVars, viewVars,
                   mountVars, formVars>>
\* (mutant) the invocation clears the multi-selection when it ends
SendResponseClearsSelection(response) ==
    /\ send.phase = "post"
    /\ response \in {"ok", "status", "network"}
    /\ SetStatus(ResponseTone(response), ResponseMessage(response), TRUE)
    /\ sending' = FALSE
    /\ send' = [IdleSend EXCEPT !.posts = send.posts, !.body = send.body,
                                 !.response = response]
    /\ selectedIds' = {}
    /\ UNCHANGED <<assistantUrl, storeVars, previewVars, selectedId, opVars, viewVars,
                   mountVars, formVars>>
\* lines 469-483: fetch settles
SendResponse(response) ==
    /\ send.phase = "post"
    /\ response \in {"ok", "status", "network"}
    /\ SetStatus(ResponseTone(response), ResponseMessage(response), TRUE)
    /\ sending' = FALSE
    /\ send' = [IdleSend EXCEPT !.posts = send.posts, !.body = send.body,
                                 !.response = response]
    /\ UNCHANGED <<assistantUrl, storeVars, previewVars, selVars, opVars>>
    /\ UNCHANGED <<viewVars, mountVars, formVars>>

\* ------------------------------------------------------- specification
BlobKeysOf(list) == {BlobKeyOf(list[k]) : k \in {j \in 1..Len(list) : HasBlobKey(list[j])}}
\* the content of the note of a loaded list
LoadedNote == <<"a">>
\* The blobs an earlier session stored for the records of `list`.
StoreOf(list) ==
    [key \in BlobKeysOf(list) |-> IF key[1] = "file" THEN FileBytes ELSE LoadedNote]
\* `store` without the blobs under the keys not in `keys`
Restrict(store, keys) == [key \in DOMAIN store \cap keys |-> store[key]]
\* Lines 91-129 and the first run of the effects: the component after mount,
\* when loadSources returned `list`, the blob store holds `store` and the
\* stored endpoint is `endpoint`.
Mounted(list, store, endpoint) ==
    LET p == Advance(NewPass(list))
    IN /\ sources = list
       /\ persisted = list
       /\ blobs = store
       /\ written = StoreOf(list)
       /\ nextId = Len(list) + 1
       /\ previews = CommitPreviews(p, NoMap)
       /\ objectUrlRef = NoMap
       /\ liveUrls = {}
       /\ nextUrl = 1
       /\ passes = IF Finished(p) THEN <<>> ELSE <<p>>
       /\ lastFinish = IF Finished(p) THEN Outcome(p, list) ELSE "none"
       /\ created = NoMap
       /\ selectedId = 0
       /\ selectedIds = {}
       /\ isProcessing = FALSE
       /\ fileOps = {}
       /\ textOps = {}
       /\ delOps = {}
       /\ removed = {}
       /\ assistantUrl = endpoint
       /\ sending = FALSE
       /\ send = IdleSend
       /\ statusTone = "info"
       /\ statusMessage = "null"
       /\ timers = FALSE
       /\ categoryFilter = "all"
       /\ query = <<>>
       /\ mounted = TRUE
       /\ initialSources = NoList
       /\ urlFormTags = <<>>


\* the render of the mount effect's setSources(initialSources) has run
Settled == mounted /\ initialSources = NoList

\* Lines 131-134 on the first render: persistSources(sources), where sources
\* is still the initial [] of line 91.
PersistedOnMount(stored) == <<>>

\* The page is closed and opened again, up to the effects of the first
\* render: what ran in the old page is gone with it (the invocations in
\* flight, the object URLs); the two stores stay.  The mount effect (121-129)
\* reads the stored list and calls setSources with it, then the persist
\* effect (131-134) writes the list of this render, and the preview effect
\* runs on that empty list.
Restart ==
    LET p == Advance(NewPass(<<>>))
    IN /\ initialSources' = <<"list", persisted>>
       /\ persisted' = PersistedOnMount(persisted)
       /\ sources' = <<>>
       /\ mounted' = TRUE
       /\ previews' = CommitPreviews(p, NoMap)
       /\ objectUrlRef' = NoMap
       /\ liveUrls' = {}
       /\ nextUrl' = 1
       /\ passes' = <<>>
       /\ lastFinish' = Outcome(p, <<>>)
       /\ created' = NoMap
       /\ selectedId' = 0
       /\ selectedIds' = {}
       /\ isProcessing' = FALSE
       /\ fileOps' = {}
       /\ textOps' = {}
       /\ delOps' = {}
       /\ sending' = FALSE
       /\ send' = IdleSend
       /\ statusTone' = "info"
       /\ statusMessage' = "null"
       /\ timers' = FALSE
       /\ categoryFilter' = "all"
       /\ query' = <<>>
       /\ urlFormTags' = <<>>
       /\ UNCHANGED <<blobs, written, nextId, removed, assistantUrl>>

\* The render of the mount effect's setSources(initialSources), with its
\* effects.
MountRender ==
    /\ mounted
    /\ initialSources # NoList
    /\ Render(initialSources[2], selectedId, selectedIds)
    /\ initialSources' = NoList
    /\ UNCHANGED <<blobs, written, nextId, mounted, opVars, sendVars, statusVars, viewVars,
                   formVars>>

\* First mount on empty stores.
Init == Mounted(<<>>, NoMap, <<>>)

\* A list an earlier session persisted, one record of each kind: a file was
\* added, then a note, then a link (every add prepends).
LoadedList == <<UrlRecord(3), TextRecord(2), FileRecord(1)>>

\* Mount on the stores that session left.
InitLoaded == Mounted(LoadedList, StoreOf(LoadedList), <<"a">>)

\* The same, when the blob store has lost some of the blobs (handleDelete
\* deletes the blob at line 348 and the list is persisted only after line 353:
\* a session that ends in between leaves a listed record without its blob).
InitLossy ==
    \E keys \in SUBSET BlobKeysOf(LoadedList) :
        Mounted(LoadedList, Restrict(StoreOf(LoadedList), keys), <<"a">>)

AddStep ==
    \/ \E n \in 1..MaxIds : FilesStart(n)
    \/ \E op \in fileOps : FilesNext(op)
    \/ \E op \in fileOps : FilesFinish(op)
    \/ \E input \in UrlInputs : UrlSubmit(input)
    \/ \E content \in NoteInputs : TextStart(content)
    \/ \E id \in textOps : TextFinish(id)

DeleteStep ==
    \/ \E k \in 1..Len(sources) : DeleteStart(k)
    \/ \E k \in 1..Len(sources) : DeleteNow(k)
    \/ \E op \in delOps : DeleteFinish(op)

PassStep ==
    \/ \E k \in 1..Len(passes) : PassRead(k)
    \/ \E k \in 1..Len(passes) : PassResume(k)

SelectStep ==
    \/ \E id \in IdsOf(sources) : ToggleSelection(id)
    \/ \E id \in IdsOf(sources) : SelectCard(id)

SendStep ==
    \/ \E value \in EndpointInputs : SetAssistantUrl(value)
    \/ SendRejectEndpoint
    \/ SendRejectTargets
    \/ SendStart
    \/ SendRead
    \/ SendResume
    \/ \E response \in {"ok", "status", "network"} : SendResponse(response)
    \/ TimerFire

\* Adds, deletes and reconciliation passes, from the first mount.
Next == AddStep \/ DeleteStep \/ PassStep
Spec == Init /\ [][Next]_vars

\* The same, when the blob store answers every read and every loadPreviews
\* invocation is resumed.
SpecLive == Init /\ [][Next]_vars /\ WF_vars(PassStep)

\* Adds, deletes and passes up to a teardown, and the loadPreviews
\* invocations that resume after it.
NextTeardown == (mounted /\ (AddStep \/ DeleteStep)) \/ PassStep \/ Unmount
SpecTeardown == Init /\ [][NextTeardown]_vars

\* Deletes and selection over a loaded list, with restarts of the page.
NextRestart ==
    \/ Settled /\ (DeleteStep \/ SelectStep)
    \/ PassStep
    \/ Restart
    \/ MountRender
SpecRestart == InitLoaded /\ [][NextRestart]_vars

\* The same, when blob writes may fail.
FailStep ==
    \/ \E op \in fileOps : FilesFail(op)
    \/ \E id \in textOps : TextFail(id)
NextFail == AddStep \/ FailStep \/ DeleteStep \/ PassStep
SpecFail == Init /\ [][NextFail]_vars

\* Selection and deletes over a loaded list.
NextSelect == SelectStep \/ DeleteStep \/ PassStep
SpecSelect == InitLoaded /\ [][NextSelect]_vars

\* The same over a loaded list whose blob store has lost blobs.
SpecLossy == InitLossy /\ [][NextSelect]_vars

\* Sends that race with deletes, over a loaded list with its endpoint.
SendFlow ==
    \/ SendRejectTargets
    \/ SendStart
    \/ SendRead
    \/ SendResume
    \/ \E response \in {"ok", "status", "network"} : SendResponse(response)
NextRace ==
    \/ SendFlow
    \/ \E id \in IdsOf(sources) : ToggleSelection(id)
    \/ DeleteStep
    \/ PassStep
SpecRace == InitLoaded /\ [][NextRace]_vars

ViewStep ==
    \/ \E key \in CategoryKeys : SetCategoryFilter(key)
    \/ \E value \in QueryInputs : SetQuery(value)

\* Link records as handleUrlSubmit builds them from the form: any category
\* detectCategoryFromUrl gives, a name, a description, parsed tags.
FilterCategories == {"image", "text"}
FilterNames == {<<"A">>, <<"b">>}
FilterDescriptions == {<<>>, <<"a", "b">>}
FilterTags == {<<>>, << <<"A", "b">> >>, << <<"b">>, <<"a">> >>}
LinkRecord(id, category, name, description, tags) ==
    [UrlRecord(id) EXCEPT !.category = category, !.name = name,
                          !.description = description, !.tags = tags]
LinkRecords(id) ==
    {LinkRecord(id, category, name, description, tags) :
        category \in FilterCategories, name \in FilterNames,
        description \in FilterDescriptions, tags \in FilterTags}

\* Mount on a stored list of two links.
InitFilter ==
    \E first \in LinkRecords(2), second \in LinkRecords(1) :
        Mounted(<<first, second>>, NoMap, <<>>)

\* Filtering over the lists of two links.
SpecFilter == InitFilter /\ [][ViewStep]_vars

\* Links added with tags, and deleted.
NextTags ==
    \/ \E value \in TagInputs : SetUrlFormTags(value)
    \/ \E input \in UrlInputs : UrlSubmit(input)
    \/ \E k \in 1..Len(sources) : DeleteNow(k)
SpecTags == Init /\ [][NextTags]_vars

\* Filtering, selection and sends over a loaded list.
NextView == ViewStep \/ SelectStep \/ SendFlow
SpecView == InitLoaded /\ [][NextView]_vars

\* Sends over a loaded list, with selection changes.
NextSend == SendStep \/ SelectStep
SpecSend == InitLossy /\ [][NextSend]_vars

\* ---------------------------------------------------------------- claims
\* Handles the cache holds and that are live, by the id they are cached for.
LiveHandleIds == {id \in DOMAIN objectUrlRef : objectUrlRef[id] \in liveUrls}
\* Object URLs created so far and revoked since.
RevokedUrls == (1..(nextUrl - 1)) \ liveUrls

\* C1: once the pass of the latest list has run its release step (in every
\* state: the release step runs in the step that changes the list), no live
\* object-URL handle belongs to an id without a file-backed record in the list.
C1_NoLiveHandleWithoutRecord == LiveHandleIds \subseteq FileIdsOf(sources)

\* C2: a superseded pass never calls setPreviews; whatever is stored in
\* previews was stored by the pass started for the list then in sources.
C2_NoStaleCommit == lastFinish # "stale"
\* a superseded pass has run to its end and was discarded
C2_Witness == lastFinish = "discarded" /\ sources # <<>>

\* C3: every object URL stored in previews is live.
C3_PreviewUrlsLive ==
    \A id \in DOMAIN previews :
        previews[id].objectUrl # 0 => previews[id].objectUrl \in liveUrls

\* C4: after handleDelete has completed for a record with a fileKey or a
\* textKey, the blob store has no entry under the key and the record is not
\* in the list.
C4_DeleteRemovesBlobAndRecord ==
    \A r \in removed :
        HasBlobKey(r.source) =>
            /\ ~readBlob(blobs, BlobKeyOf(r.source))
            /\ r.source.id \notin IdsOf(sources)
\* a file-backed and a text-backed record have been deleted
C4_Witness ==
    /\ \E r \in removed : r.source.fileKey # NoKey
    /\ \E r \in removed : r.source.textKey # NoKey

\* the step that removes a file-backed record revokes its cached handle and
\* drops it from the cache
C5_Released ==
    \A id \in FileIdsOf(sources) \ IdsOf(sources') :
        HasHandle(objectUrlRef, id) =>
            /\ objectUrlRef[id] \notin liveUrls'
            /\ ~HasHandle(objectUrlRef', id)
\* no revoked handle is in the cache and no handle is cached for two ids
C5_NotReissued ==
    /\ \A id \in DOMAIN objectUrlRef : objectUrlRef[id] \notin RevokedUrls
    /\ \A i, j \in DOMAIN objectUrlRef : objectUrlRef[i] = objectUrlRef[j] => i = j
\* C5: the reconciliation pass that follows the removal of a file-backed
\* record (it starts in the step that removes the record) revokes the handle
\* cached for the record and drops it from the cache; a revoked handle is
\* never in the cache again, for that id or another.
C5_HandleReleasedNotReissued == [][C5_Released /\ C5_NotReissued']_vars
\* a file-backed record has been removed, a handle is revoked, and a handle
\* is cached
C5_Witness ==
    /\ \E r \in removed : r.source.fileKey # NoKey
    /\ RevokedUrls # {}
    /\ DOMAIN objectUrlRef # {}

\* C6: the id of a deleted record is in neither selection; selectedIds holds
\* only ids of the list and selectedId is null or an id of the list (every
\* state is settled: the effects run in the step that changes the list).
C6_SelectionPruned ==
    /\ selectedIds \subseteq IdsOf(sources)
    /\ selectedId = 0 \/ selectedId \in IdsOf(sources)
    /\ \A r \in removed : r.source.id \notin selectedIds /\ selectedId # r.source.id
\* a record was deleted that became the single selection while its delete
\* was in flight
C6_Witness == \E r \in removed : r.raced

\* C7: a target whose blob read returned absent has no entry in the payload.
C7_MissedTargetsOmitted ==
    \A id \in send.missed : \A k \in 1..Len(send.payload) : send.payload[k].id # id

\* one step, as C8 wants it
C8_Step ==
    /\ send'.posts <= 1
    /\ send'.phase = "loop" => send'.posts = 0
    /\ send'.phase = "post" => send'.posts = 1
    /\ send.phase \in {"post", "idle"} /\ send'.phase = "idle" => send'.posts = send.posts
    /\ send.phase = "post" /\ send'.phase = "idle" =>
          /\ send'.posts = 1
          /\ ~sending'
          /\ statusTone' = "success" <=> send'.response = "ok"
          /\ statusTone' = "error" <=> send'.response \in {"status", "network"}
\* C8: a validated invocation calls fetch exactly once, at the end of its
\* loop; when fetch settles the invocation ends with tone success exactly on
\* a 2xx response and with tone error on another status or a network
\* failure, and no fetch follows until the next invocation starts.
C8_OnePostToneByResponse == [][C8_Step]_vars
\* an invocation has ended on a non-2xx response
C8_Witness ==
    /\ send.phase = "idle" /\ send.posts = 1 /\ send.response = "status"
    /\ statusTone = "error" /\ statusMessage = "Unreachable"

\* a click on the send button
SendClick == SendRejectEndpoint \/ SendRejectTargets \/ SendStart
\* the endpoint field is empty or holds blanks only
BlankEndpoint == \A k \in 1..Len(assistantUrl) : assistantUrl[k] = " "
\* neither selection names a record of the list
NothingSelected ==
    /\ selectedIds \cap IdsOf(sources) = {}
    /\ selectedId = 0 \/ selectedId \notin IdsOf(sources)
\* one step, as C9 wants it
C9_Step ==
    SendClick /\ (BlankEndpoint \/ NothingSelected) =>
        /\ send' = send /\ send'.phase = "idle"
        /\ ~sending'
        /\ blobs' = blobs
        /\ IF BlankEndpoint
           THEN statusTone' = "error" /\ statusMessage' = "AddEndpoint"
           ELSE statusTone' = "info" /\ statusMessage' = "SelectOne"
\* C9: an invocation with an empty or whitespace-only endpoint, or with no
\* target, starts nothing (no read, no fetch, sending stays false) and sets
\* the error message (endpoint) or the info message (no target).
C9_ValidationBeforeDelivery == [][C9_Step]_vars
\* an invocation with a whitespace-only endpoint and a selection was rejected
C9_Witness ==
    /\ assistantUrl = <<" ">> /\ selectedIds # {}
    /\ statusTone = "error" /\ statusMessage = "AddEndpoint"
    /\ ~sending /\ send.phase = "idle" /\ send.posts = 0

\* targets are records of list, in list order, none twice
SubSeqOfList(targets, list) ==
    \E pos \in [1..Len(targets) -> 1..Len(list)] :
        /\ \A k \in 1..Len(targets) : targets[k] = list[pos[k]]
        /\ \A k \in 1..(Len(targets) - 1) : pos[k] < pos[k + 1]
\* one step, as C10 wants it
C10_Step ==
    send.phase = "idle" /\ send'.phase # "idle" =>
        LET multi == selectedIds \cap IdsOf(sources)
        IN /\ SubSeqOfList(send'.targets, sources)
           /\ IdsOf(send'.targets) = (IF multi # {} THEN multi ELSE {selectedId})
\* C10: the targets of an invocation that starts are the records of the list
\* in the multi-select set, in list order, when there is one; otherwise the
\* single-selected record alone; the single-selected record is not added to
\* a multi-selection.
C10_TargetResolution == [][C10_Step]_vars
\* an invocation runs on a multi-selection that leaves the single selection out
C10_Witness ==
    /\ send.phase # "idle"
    /\ selectedId \in IdsOf(sources)
    /\ selectedIds = IdsOf(send.targets)
    /\ selectedId \notin selectedIds

\* one step, as C11 wants it
C11_Step ==
    /\ categoryFilter' # categoryFilter \/ query' # query =>
          /\ UNCHANGED selVars
          /\ Targets' = Targets
    /\ send.phase = "idle" /\ send'.phase # "idle" =>
          selectedIds \cap IdsOf(sources) \subseteq IdsOf(send'.targets)
\* C11: a change of the category filter or of the query leaves selectedIds
\* and selectedId as they are, and a send that starts has every record of the
\* multi-selection among its targets, visible or not.
C11_FilterKeepsSelection == [][C11_Step]_vars
\* a send runs on a selected record that the filter hides
C11_Witness ==
    /\ send.phase # "idle"
    /\ \E k \in 1..Len(send.targets) :
          /\ send.targets[k].id \in selectedIds
          /\ send.targets[k].id \notin IdsOf(filteredSources)

\* the target an entry of the body was built from
TargetOf(entry) == CHOOSE k \in 1..Len(send.targets) : send.targets[k].id = entry.id
\* the encoding the kind of a record calls for
EncodingOf(kind) ==
    IF kind = "file" THEN "base64" ELSE IF kind = "text" THEN "text" ELSE "url"
\* C12: in the body of every POST, sourceCount is the number of entries of
\* sources; the encoding of an entry is the one its record's kind calls for;
\* the value of a text entry is the note content stored for the record and
\* the value of a url entry is the record's url.
C12_PayloadShape ==
    send.phase = "post" =>
        /\ send.body.sourceCount = Len(send.body.sources)
        /\ \A k \in 1..Len(send.body.sources) :
              LET entry == send.body.sources[k]
                  source == send.targets[TargetOf(entry)]
              IN /\ entry.encoding = EncodingOf(source.kind)
                 /\ source.kind = "text" => entry.value = written[source.textKey]
                 /\ source.kind = "url" => entry.value = source.url

\* the records of the list that reference key
Referrers(key) ==
    {k \in 1..Len(sources) : HasBlobKey(sources[k]) /\ BlobKeyOf(sources[k]) = key}
\* C13: when no add and no delete is in flight, every entry of the blob
\* store is referenced by exactly one record of the list, and no two records
\* reference one key; also after an add whose blob write failed.
C13_BlobOwnership ==
    Suspended = 0 =>
        /\ \A key \in DOMAIN blobs : Cardinality(Referrers(key)) = 1
        /\ \A key \in BlobKeysOf(sources) : Cardinality(Referrers(key)) = 1

\* what C14 wants of previews
PreviewsComplete ==
    /\ \A k \in 1..Len(sources) :
          LET source == sources[k]
          IN /\ source.fileKey # NoKey /\ readBlob(blobs, source.fileKey) =>
                   /\ source.id \in DOMAIN previews
                   /\ previews[source.id].objectUrl # 0
             /\ source.textKey # NoKey /\ readBlob(blobs, source.textKey) =>
                   /\ source.id \in DOMAIN previews
                   /\ previews[source.id].text = BlobAt(blobs, source.textKey)
    /\ DOMAIN previews \subseteq IdsOf(sources)
\* C14: when the list stops changing and every awaited blob read is answered
\* and resumed, previews ends up holding an object URL for every file record
\* whose blob is present, the decoded text for every note whose blob is
\* present, and no entry for an id that is not in the list.
C14_PreviewsEventuallyComplete == <>[][sources' = sources]_vars => <>[]PreviewsComplete
\* previews holds the handle of a file and the text of a note, and the pass
\* that stored them has ended
C14_Witness ==
    /\ passes = <<>> /\ lastFinish = "committed"
    /\ PreviewsComplete
    /\ \E id \in DOMAIN previews : previews[id].objectUrl # 0
    /\ \E id \in DOMAIN previews : previews[id].text # NoText

\* C15: after the component is torn down no object URL is live and the
\* handle cache is empty, also after a pass that was in flight at teardown
\* has resumed.
C15_NoHandleAfterTeardown == ~mounted => liveUrls = {} /\ objectUrlRef = NoMap

\* the list grew: the old list is its tail and the records before it are new
GrewInFront ==
    LET n == Len(sources') - Len(sources)
    IN /\ n > 0
       /\ SubSeq(sources', n + 1, Len(sources')) = sources
       /\ IdsOf(SubSeq(sources', 1, n)) \cap IdsOf(sources) = {}
\* the list lost one record, the one a handleDelete that completes was given
LostOne ==
    \E k \in 1..Len(sources) :
        /\ sources' = RemoveAt(sources, k)
        /\ \E r \in removed' : r.source.id = sources[k].id
RemovedIds == {r.source.id : r \in removed}
\* C17: once the effects of a change have run, the persisted list is the
\* list in memory; after a restart the list in memory is the list that was
\* persisted, so that of the records an earlier session stored exactly those
\* deleted since are missing, and the write of the empty list during mount
\* loses none.
C17_PersistenceRoundTrip ==
    Settled =>
        /\ persisted = sources
        /\ sources = SelectSeq(LoadedList, LAMBDA source : source.id \notin RemovedIds)

\* a step of a send invocation: a click on the send button, or a step of
\* the invocation in flight
SendInvocationStep ==
    SendRejectEndpoint \/ SendRejectTargets \/ send' # send \/ sending' # sending
\* C18: no step of a send invocation, whatever its outcome, changes the
\* list, the blob store, the multi-selection or the single selection, so the
\* targets of the next invocation are those of this one.
C18_SendChangesNothing ==
    [][SendInvocationStep =>
          /\ UNCHANGED <<sources, persisted, blobs, selectedId, selectedIds>>
          /\ Targets' = Targets]_vars
\* an invocation has ended on a network failure and its targets are still
\* selected
C18_Witness ==
    /\ send.phase = "idle" /\ send.response = "network" /\ statusTone = "error"
    /\ selectedIds # {}
    /\ Targets # <<>>

\* a text with its capital letters turned into small ones
Lowered(str) == [k \in 1..Len(str) |-> IF str[k] = "A" THEN "a" ELSE str[k]]
\* part occurs in str
OccursIn(part, str) ==
    \E i, j \in 0..Len(str) : i <= j /\ SubSeq(str, i + 1, j) = part
\* the record C19 wants in the visible list
Wanted(r) ==
    /\ categoryFilter = "all" \/ r.category = categoryFilter
    /\ \/ query = <<>>
       \/ OccursIn(Lowered(query), Lowered(r.name))
       \/ OccursIn(Lowered(query), Lowered(r.description))
       \/ \E t \in 1..Len(r.tags) : OccursIn(Lowered(query), Lowered(r.tags[t]))
\* C19: the visible list is the subsequence of the list, order kept, of the
\* records whose category passes the filter and whose name, description or
\* some tag contains the query, letter case aside (every record when the
\* query is empty).
C19_FilterCorrect ==
    filteredSources = SelectSeq(sources, Wanted)
\* a filter and a query are set and one of two records is visible, found by
\* its description or a tag and not by its name
C19_Witness ==
    /\ categoryFilter # "all" /\ query # <<>>
    /\ Len(sources) = 2 /\ Len(filteredSources) = 1
    /\ ~Includes(ToLowerCase(filteredSources[1].name), ToLowerCase(query))

\* the fields of a record that are set
SetFields(r) ==
    {f \in {"fileKey", "textKey", "url"} :
        \/ f = "fileKey" /\ r.fileKey # NoKey
        \/ f = "textKey" /\ r.textKey # NoKey
        \/ f = "url" /\ r.url # NoUrl}
\* C20: every record an add put in the list has exactly one of fileKey,
\* textKey and url set, the one of its kind: a file only fileKey, a text only
\* textKey, a url only url.
C20_OneKeyOfKind ==
    \A k \in 1..Len(sources) :
        LET r == sources[k]
        IN /\ r.kind \in {"file", "text", "url"}
           /\ r.kind = "file" => SetFields(r) = {"fileKey"}
           /\ r.kind = "text" => SetFields(r) = {"textKey"}
           /\ r.kind = "url" => SetFields(r) = {"url"}
\* a link and a note were added and are both in the list
C20_Witness ==
    /\ \E k \in 1..Len(sources) : sources[k].kind = "url"
    /\ \E k \in 1..Len(sources) : sources[k].kind = "text"

\* the places of value where a piece ends: before the text, at each comma,
\* after the text
Cuts(value) == {0, Len(value) + 1} \cup {i \in 1..Len(value) : value[i] = ","}
\* the piece that starts after the cut c
PieceAfter(value, c) ==
    LET end == CHOOSE d \in Cuts(value) :
                   d > c /\ \A e \in Cuts(value) : e > c => d <= e
    IN SubSeq(value, c + 1, end - 1)
\* a text without the blanks around it
Stripped(str) ==
    LET inked == {i \in 1..Len(str) : str[i] # " "}
    IN IF inked = {} THEN <<>>
       ELSE SubSeq(str, CHOOSE i \in inked : \A j \in inked : i <= j,
                        CHOOSE i \in inked : \A j \in inked : i >= j)
\* the tags C21 wants for a text: the non-empty stripped pieces in their
\* order, the first twelve of them
ExpectedTags(value) ==
    LET kept == {c \in Cuts(value) \ {Len(value) + 1} :
                    Stripped(PieceAfter(value, c)) # <<>>}
        rank(c) == Cardinality({d \in kept : d <= c})
        n == IF Cardinality(kept) < 12 THEN Cardinality(kept) ELSE 12
    IN [k \in 1..n |-> Stripped(PieceAfter(value, CHOOSE c \in kept : rank(c) = k))]
\* one step, as C21 wants it
C21_Step ==
    /\ Len(sources') > Len(sources) => sources'[1].tags = ExpectedTags(urlFormTags)
    /\ \A k \in 1..Len(sources') :
          /\ Len(sources'[k].tags) <= 12
          /\ \A t \in 1..Len(sources'[k].tags) : sources'[k].tags[t] # <<>>
\* C21: the tags of a record an add creates are the pieces of the tags field
\* between its commas, each without the blanks around it, the empty ones
\* dropped, in their order, the first 12 of them; every record of the list
\* has at most 12 tags and no empty tag.
C21_TagParsing == [][C21_Step]_vars
\* a record has 12 tags (its tags field listed more), another has fewer
C21_Witness ==
    /\ \E k \in 1..Len(sources) : Len(sources[k].tags) = 12
    /\ \E k \in 1..Len(sources) : Len(sources[k].tags) \in 1..3

\* the ids of the records of the list whose preview can be made: the records
\* without a blob key and those whose blob is in the store
Previewable ==
    {sources[k].id : k \in {j \in 1..Len(sources) :
        HasBlobKey(sources[j]) => readBlob(blobs, BlobKeyOf(sources[j]))}}
\* the pass k resumes with the answer that the blob is absent
ResumesOnMiss(k) == passes[k].rd = "miss" /\ PassResume(k)
\* one step, as C22 wants it
C22_Step ==
    \A k \in 1..Len(passes) :
        ResumesOnMiss(k) =>
            LET p == passes[k]
                id == Current(p).id
                rest == {p.list[j].id : j \in (p.i + 1)..Len(p.list)}
                ended == Len(passes') < Len(passes)
            IN /\ UNCHANGED <<objectUrlRef, liveUrls, nextUrl>>
               /\ ~ended => /\ passes'[k].i > p.i
                            /\ id \notin DOMAIN passes'[k].next
                            /\ DOMAIN p.next \subseteq DOMAIN passes'[k].next
               /\ ended => lastFinish' \in {"committed", "discarded"}
               /\ ended /\ p.isCurrent =>
                     /\ id \notin DOMAIN previews'
                     /\ DOMAIN p.next \subseteq DOMAIN previews'
                     /\ DOMAIN previews' \subseteq DOMAIN p.next \cup rest
\* C22: a pass that finds the blob of a record absent stores no preview
\* entry for the record and creates no handle, and goes on: when it ends as
\* the current pass, previews holds the entries of the other records and none
\* for that one; once the passes have ended, previews holds an entry for
\* every record whose preview can be made.
C22_MissSkipped ==
    [][/\ C22_Step
       /\ (passes' = <<>> /\ lastFinish' = "committed" /\ Suspended' = 0) =>
               DOMAIN previews' = Previewable']_vars
\* the passes have ended; the note's blob is absent and the note has no
\* entry, the file has its handle and the link its entry
C22_Witness ==
    /\ passes = <<>> /\ lastFinish = "committed" /\ Len(sources) = 3
    /\ ~readBlob(blobs, TextKeyOf(2)) /\ 2 \notin DOMAIN previews
    /\ 1 \in DOMAIN previews /\ previews[1].objectUrl \in liveUrls
    /\ 3 \in DOMAIN previews

\* C23: every file add ends with isProcessing false, also the one whose blob
\* write fails part-way: when no handleFiles invocation is in flight, the
\* flag is false.
C23_ProcessingEnds == fileOps = {} => ~isProcessing

\* the ids whose cached handle is revoked in this step
RevokedIds ==
    {id \in DOMAIN objectUrlRef :
        objectUrlRef[id] \in liveUrls /\ objectUrlRef[id] \notin liveUrls'}
\* C24: while the component is mounted, a step revokes the handle cached for
\* an id only when the id is not in the list the step leaves; the handle of a
\* record of the list stays live, whichever passes are running.
C24_RevokesOnlyAbsent ==
    [][mounted /\ mounted' =>
          /\ RevokedIds \cap IdsOf(sources') = {}
          /\ liveUrls \ liveUrls' \subseteq {objectUrlRef[id] : id \in RevokedIds}]_vars
\* a handle was revoked while a pass was running, and the file still in the
\* list has its handle
C24_Witness ==
    /\ mounted /\ RevokedUrls # {} /\ passes # <<>>
    /\ \E id \in FileIdsOf(sources) : id \in LiveHandleIds

\* the handles reported for the record id: in previews and in the `next` of
\* the passes that are running
ReportedFor(id) ==
    ({previews[i].objectUrl : i \in {j \in DOMAIN previews : j = id}}
        \cup {passes[k].next[id].objectUrl :
                  k \in {j \in 1..Len(passes) : id \in DOMAIN passes[j].next}}) \ {0}
\* one step, as C25 wants it
C25_Step ==
    /\ \A id \in IdsOf(sources') :
          /\ Cardinality(CreatedFor(id)') <= 1
          /\ ReportedFor(id)' \subseteq CreatedFor(id)'
    /\ \A id \in DOMAIN objectUrlRef \cap DOMAIN objectUrlRef' :
          objectUrlRef'[id] # objectUrlRef[id] => objectUrlRef[id] \notin liveUrls'
    /\ \A id \in DOMAIN created' :
          CreatedFor(id)' # CreatedFor(id) => ~HasHandle(objectUrlRef, id)
\* C25: for a record of the list at most one object URL has been created,
\* whichever passes ran; a URL is created only for an id without a cached
\* handle, no live handle is replaced in the cache, and every pass reports
\* that one URL for the record.  (Holds while the component stays mounted;
\* a pass that resumes after the teardown creates a second URL.)
C25_OneHandlePerId == [][C25_Step]_vars

\* the ids of the records whose add is still in flight
InFlightIds ==
    textOps \cup {op.cur : op \in fileOps}
        \cup UNION {IdsOf(op.additions) : op \in fileOps}
\* the ids of the records whose add has completed
AddedIds == (1..(nextId - 1)) \ InFlightIds
\* C26: the list holds exactly the records whose add has completed and whose
\* delete has not, each once, in every state and so once every operation in
\* flight has completed, in whatever order the blob writes and deletes did.
C26_NoLostUpdate ==
    /\ IdsOf(sources) = AddedIds \ RemovedIds
    /\ Cardinality(IdsOf(sources)) = Len(sources)
\* an add and a delete are in flight together
C26_Witness ==
    /\ delOps # {}
    /\ fileOps # {} \/ textOps # {}

\* one step, as C27 wants it
C27_Step ==
    \A k \in 1..Len(sources') :
        LET r == sources'[k]
        IN r.id \notin IdsOf(sources) /\ HasBlobKey(r) =>
               /\ readBlob(blobs, BlobKeyOf(r))
               /\ readBlob(blobs', BlobKeyOf(r))
               /\ BlobAt(blobs', BlobKeyOf(r)) = written'[BlobKeyOf(r)]
\* C27: a record with a fileKey or a textKey enters the list only after its
\* blob was written: in the step in which the record first appears, the blob
\* store holds its blob already, and still holds it after the step.
C27_PersistBeforePublish == [][C27_Step]_vars
\* a file and a note are in the list with their blobs
C27_Witness ==
    /\ \E k \in 1..Len(sources) :
          sources[k].kind = "file" /\ readBlob(blobs, sources[k].fileKey)
    /\ \E k \in 1..Len(sources) :
          sources[k].kind = "text" /\ readBlob(blobs, sources[k].textKey)

\* C28: sending is true exactly while a validated invocation is in flight
\* (in its payload loop or in its fetch), it is false again when the
\* invocation has ended, however it ended, and while it is true a click on
\* the send button starts nothing, so that one invocation at most is in
\* flight.
C28_SendingWhileInFlight ==
    /\ sending <=> send.phase # "idle"
    /\ sending => ~ENABLED (SendStart \/ SendRejectEndpoint \/ SendRejectTargets)
\* an invocation that posted a body has ended on a network failure and the
\* flag is false
C28_Witness ==
    /\ ~sending /\ send.phase = "idle"
    /\ send.response = "network" /\ send.body # NoBody

====
